---- MODULE Spec2Model ----
(***************************************************************************)
(* Collab Tracker frontend: the Navbar side-menu toggle, the sign-up form  *)
(* (both in components/Layouts/Navbar.tsx) and the login form              *)
(* (app/login/page.tsx).                                                   *)
(*                                                                         *)
(* A string is a sequence of one-character strings, so that the regular    *)
(* expressions of the validators are computed character by character.      *)
(* One component is mounted per behaviour (variable mounted); the session  *)
(* context, the router and the HTTP client are the collaborators, observed *)
(* through user, route and the log calls.                                  *)
(***************************************************************************)
EXTENDS Integers, Sequences, FiniteSets

VARIABLES
    mounted,          \* which component this behaviour renders
    openSideMenu,     \* Navbar: useState(false)
    activeMenu,       \* Navbar: the activeMenu prop
    clicks,           \* Navbar: number of toggle-button clicks so far (history)
    profilePic,       \* SignUpForm state
    fullName, username, email, password,
    fullNameError, usernameError, emailError, passwordError,
    error,            \* SignUpForm: global/API error
    submitted,        \* SignUpForm: live re-validation flag
    loginEmail, loginPassword,                 \* LoginForm: email, password
    loginEmailError, loginPasswordError,       \* LoginForm: emailError, passwordError
    serverError,      \* LoginForm
    user,             \* UserContext: the session user
    route,            \* router: the current path
    inFlight,         \* requests awaiting their response
    calls,            \* log of the collaborator calls: "post", "updateUser", "push"
    lastOp            \* the event handled last (history)

signUpVars == <<profilePic, fullName, username, email, password, fullNameError,
                usernameError, emailError, passwordError, error, submitted>>
loginVars == <<loginEmail, loginPassword, loginEmailError, loginPasswordError,
               serverError>>
navbarVars == <<openSideMenu, activeMenu, clicks>>
sessionVars == <<user, route, inFlight, calls>>
vars == <<mounted, navbarVars, signUpVars, loginVars, sessionVars, lastOp>>

----------------------------------------------------------------------------
(* Bounds *)

\* total number of requests one behaviour issues
MaxRequests == 2
\* number of toggle-button clicks one behaviour counts
MaxClicks == 3

----------------------------------------------------------------------------
(* Characters *)

Lower == {"a","b","c","d","e","f","g","h","i","j","k","l","m",
          "n","o","p","q","r","s","t","u","v","w","x","y","z"}
Upper == {"A","B","C","D","E","F","G","H","I","J","K","L","M",
          "N","O","P","Q","R","S","T","U","V","W","X","Y","Z"}
Digit == {"0","1","2","3","4","5","6","7","8","9"}
Whitespace == {" ", "\t", "\n", "\r"}
LineTerminator == {"\n", "\r"}
\* \w of a JavaScript regular expression
WordChar == Lower \cup Upper \cup Digit \cup {"_"}

Empty == << >>
\* JavaScript truthiness of a string
Truthy(s) == s # ""

----------------------------------------------------------------------------
(* Validators *)

\* /^[A-Za-z ]+$/
nameRegex(val) ==
    /\ Len(val) >= 1
    /\ \A i \in 1..Len(val) : val[i] \in Lower \cup Upper \cup {" "}

\* /^[A-Za-z0-9]+$/
usernameRegex(val) ==
    /\ Len(val) >= 1
    /\ \A i \in 1..Len(val) : val[i] \in Lower \cup Upper \cup Digit

MinPasswordLen == 8

\* /^(?=.*[a-z])(?=.*[A-Z])(?=.*\d)(?=.*[\W_]).{8,}$/
passwordRegex(val) ==
    /\ \E i \in 1..Len(val) : val[i] \in Lower
    /\ \E i \in 1..Len(val) : val[i] \in Upper
    /\ \E i \in 1..Len(val) : val[i] \in Digit
    /\ \E i \in 1..Len(val) : val[i] \notin WordChar \/ val[i] = "_"
    /\ Len(val) >= MinPasswordLen
    /\ \A i \in 1..Len(val) : val[i] \notin LineTerminator

\* utils/helper validateEmail: local@domain.tld, no whitespace, a single "@"
validateEmail(val) ==
    \E a \in 1..Len(val) : \E d \in 1..Len(val) :
        /\ val[a] = "@"
        /\ val[d] = "."
        /\ 1 < a
        /\ a + 1 < d
        /\ d < Len(val)
        /\ \A i \in 1..Len(val) : val[i] \notin Whitespace
        /\ \A i \in 1..Len(val) : val[i] = "@" => i = a

runFullNameValidation(val) ==
    IF val = Empty THEN "Please enter your name."
    ELSE IF ~nameRegex(val) THEN "Full name can only contain alphabets and spaces."
    ELSE ""

runUsernameValidation(val) ==
    IF val = Empty THEN "Please enter a username."
    ELSE IF ~usernameRegex(val)
         THEN "Username can only contain alphabets and numbers (no spaces)."
    ELSE ""

runEmailValidation(val) ==
    IF val = Empty THEN "Please enter an email address."
    ELSE IF ~validateEmail(val) THEN "Please enter a valid email address."
    ELSE ""

runPasswordValidation(val) ==
    IF val = Empty THEN "Please enter the password."
    ELSE IF ~passwordRegex(val)
         THEN "Password must be at least 8 characters and include 1 uppercase, 1 lowercase, 1 number, and 1 special character."
    ELSE ""

----------------------------------------------------------------------------
(* Inputs typed into the fields *)

FullNameInputs ==
    { Empty,
      <<"J","o","1">>,
      <<"J","o","h","n"," ","D","o","e">>,
      <<"A","l">> }

UsernameInputs ==
    { Empty,
      <<"j","o"," ","h","n">>,
      <<"j","o","h","n","1">> }

EmailInputs ==
    { Empty,
      <<"j","@","e","x">>,
      <<"j","@","e","x",".","c","o">> }

PasswordInputs ==
    { Empty,
      <<"a","b","c","d","e","f","1","2">>,
      <<"A","b","c","d","e","f","1","!">> }

----------------------------------------------------------------------------
(* Collaborators: the API, the session context, the router *)

\* the user objects the API returns (interface User)
ServerUsers ==
    { [_id |-> "u1", email |-> "john@example.com", fullName |-> "John Doe",
       username |-> "john1"],
      [_id |-> "u2", email |-> "al@example.com", fullName |-> "Al",
       username |-> "al2", profileImageUrl |-> "/img/al.png"] }

\* err.response.data.message of a rejected request
ServerMessages == {"Invalid credentials", ""}

\* how a request settles:
\*   ok          resolved, response.data = {data: {user, accessToken, refreshToken}}
\*   okNoUser    resolved, response.data = {data: {}}
\*   okNoData    resolved, response.data = {}
\*   okNoBody    resolved, response.data undefined
\*   rejected    rejected with err.response.data.message
\*   rejectedNoMessage  rejected without a response (network failure)
Responses ==
    { [kind |-> "ok", user |-> u] : u \in ServerUsers }
    \cup { [kind |-> k] : k \in {"okNoUser", "okNoData", "okNoBody", "rejectedNoMessage"} }
    \cup { [kind |-> "rejected", message |-> m] : m \in ServerMessages }

NoUser == [none |-> TRUE]
FallbackMessage == "Something went wrong. Please try again."
DashboardPath == "/dashboard"

\* userWithId with a fault: the identifier is not normalised
userWithUsernameAsId(u) ==
    [f \in DOMAIN u \cup {"id"} |-> IF f = "id" THEN u.username ELSE u[f]]

\* { ...data.user, id: data.user._id }
userWithId(u) ==
    [f \in DOMAIN u \cup {"id"} |-> IF f = "id" THEN u._id ELSE u[f]]

\* axiosInstance.post(endpoint, body)
Request(endpoint, body) == [endpoint |-> endpoint, body |-> body]

CountCalls(log, fn) == Cardinality({ i \in DOMAIN log : log[i] = fn })

RemoveAt(seq, i) == SubSeq(seq, 1, i - 1) \o SubSeq(seq, i + 1, Len(seq))

\* the event handled last: a user event, or a request settling with a response
Event(name) == [op |-> name]
SettledEvent(name, resp) == [op |-> name, arg |-> resp]

----------------------------------------------------------------------------
(* Initial state: the useState initial values of the mounted component *)

Components == {"Navbar", "SignUpForm", "LoginForm"}
ActiveMenus == {"Dashboard", "Manage Tasks"}

InitialRoute(c) ==
    IF c = "SignUpForm" THEN "/signup"
    ELSE IF c = "LoginForm" THEN "/login"
    ELSE DashboardPath

Init ==
    /\ mounted \in Components
    /\ openSideMenu = FALSE
    /\ activeMenu \in ActiveMenus
    /\ clicks = 0
    /\ profilePic = "null"
    /\ fullName = Empty /\ username = Empty /\ email = Empty /\ password = Empty
    /\ fullNameError = "" /\ usernameError = "" /\ emailError = "" /\ passwordError = ""
    /\ error = ""
    /\ submitted = FALSE
    /\ loginEmail = Empty /\ loginPassword = Empty
    /\ loginEmailError = "" /\ loginPasswordError = "" /\ serverError = ""
    /\ user = NoUser
    /\ route = InitialRoute(mounted)
    /\ inFlight = << >>
    /\ calls = << >>
    /\ lastOp = Event("mount")

----------------------------------------------------------------------------
(* Navbar *)

\* ToggleSideMenu with a fault: the click opens the panel and never closes it
ToggleSideMenuOpensOnly ==
    /\ mounted = "Navbar"
    /\ clicks < MaxClicks
    /\ openSideMenu' = TRUE
    /\ clicks' = clicks + 1
    /\ lastOp' = Event("toggleSideMenu")
    /\ UNCHANGED <<mounted, activeMenu, signUpVars, loginVars, sessionVars>>

\* onClick={() => setOpenSideMenu(!openSideMenu)}
ToggleSideMenu ==
    /\ mounted = "Navbar"
    /\ clicks < MaxClicks
    /\ openSideMenu' = ~openSideMenu
    /\ clicks' = clicks + 1
    /\ lastOp' = Event("toggleSideMenu")
    /\ UNCHANGED <<mounted, activeMenu, signUpVars, loginVars, sessionVars>>

\* the parent renders Navbar again with another activeMenu prop
ChangeActiveMenu ==
    /\ mounted = "Navbar"
    /\ \E m \in ActiveMenus \ {activeMenu} :
         /\ activeMenu' = m
         /\ lastOp' = Event("changeActiveMenu")
    /\ UNCHANGED <<mounted, openSideMenu, clicks, signUpVars, loginVars, sessionVars>>

\* {openSideMenu && <div ...><SideMenu activeMenu={activeMenu} /></div>}
SideMenuRendered == openSideMenu

----------------------------------------------------------------------------
(* SignUpForm *)

\* AnyFieldError with a fault: the password error does not block the submit
AnyFieldErrorButPassword(fErr, uErr, eErr, pErr) ==
    Truthy(fErr) \/ Truthy(uErr) \/ Truthy(eErr)

AnyFieldError(fErr, uErr, eErr, pErr) ==
    Truthy(fErr) \/ Truthy(uErr) \/ Truthy(eErr) \/ Truthy(pErr)

\* the body of the registration request
RegisterBody ==
    [fullName |-> fullName, username |-> username, email |-> email,
     password |-> password]

\* handleSignUp up to its await
handleSignUp ==
    /\ mounted = "SignUpForm"
    /\ LET fErr == runFullNameValidation(fullName)
           uErr == runUsernameValidation(username)
           eErr == runEmailValidation(email)
           pErr == runPasswordValidation(password)
       IN  /\ submitted' = TRUE
           /\ error' = ""
           /\ fullNameError' = fErr
           /\ usernameError' = uErr
           /\ emailError' = eErr
           /\ passwordError' = pErr
           /\ IF AnyFieldError(fErr, uErr, eErr, pErr)
              THEN UNCHANGED <<inFlight, calls>>
              ELSE /\ CountCalls(calls, "post") < MaxRequests
                   /\ inFlight' = Append(inFlight, Request("AUTH.REGISTER", RegisterBody))
                   /\ calls' = Append(calls, "post")
    /\ lastOp' = Event("handleSignUp")
    /\ UNCHANGED <<mounted, navbarVars, loginVars, user, route,
                   profilePic, fullName, username, email, password>>

\* SignUpCatchMessage with a fault: no fallback, a failure without a message
\* shows nothing
SignUpCatchNoFallback(resp) ==
    IF resp.kind = "rejected" /\ Truthy(resp.message) THEN resp.message
    ELSE ""

\* the message the catch block of handleSignUp stores
SignUpCatchMessage(resp) ==
    IF resp.kind = "rejected" /\ Truthy(resp.message) THEN resp.message
    ELSE FallbackMessage

\* handleSignUp from its await on: the request inFlight[i] settles with resp
handleSignUpSettled(i, resp) ==
    /\ mounted = "SignUpForm"
    /\ inFlight' = RemoveAt(inFlight, i)
    /\ IF resp.kind = "ok"
       THEN /\ user' = userWithId(resp.user)
            /\ route' = DashboardPath
            /\ calls' = calls \o <<"updateUser", "push">>
            /\ UNCHANGED error
       ELSE IF resp.kind \in {"okNoUser", "okNoData"}
       THEN UNCHANGED <<user, route, calls, error>>
       ELSE /\ error' = SignUpCatchMessage(resp)
            /\ UNCHANGED <<user, route, calls>>
    /\ lastOp' = SettledEvent("handleSignUpSettled", resp)
    /\ UNCHANGED <<mounted, navbarVars, loginVars, profilePic, fullName, username,
                   email, password, fullNameError, usernameError, emailError,
                   passwordError, submitted>>

SignUpSettles ==
    \E i \in DOMAIN inFlight : \E resp \in Responses : handleSignUpSettled(i, resp)

handleFullNameChange(val) ==
    /\ mounted = "SignUpForm"
    /\ fullName' = val
    /\ fullNameError' = IF submitted THEN runFullNameValidation(val) ELSE fullNameError
    /\ lastOp' = Event("handleFullNameChange")
    /\ UNCHANGED <<mounted, navbarVars, loginVars, sessionVars, profilePic, username,
                   email, password, usernameError, emailError, passwordError, error,
                   submitted>>

handleUsernameChange(val) ==
    /\ mounted = "SignUpForm"
    /\ username' = val
    /\ usernameError' = IF submitted THEN runUsernameValidation(val) ELSE usernameError
    /\ lastOp' = Event("handleUsernameChange")
    /\ UNCHANGED <<mounted, navbarVars, loginVars, sessionVars, profilePic, fullName,
                   email, password, fullNameError, emailError, passwordError, error,
                   submitted>>

\* handleEmailChange with a fault: validates the state value of the previous
\* render instead of the typed one
handleEmailChangeStale(val) ==
    /\ mounted = "SignUpForm"
    /\ email' = val
    /\ emailError' = IF submitted THEN runEmailValidation(email) ELSE emailError
    /\ lastOp' = Event("handleEmailChange")
    /\ UNCHANGED <<mounted, navbarVars, loginVars, sessionVars, profilePic, fullName,
                   username, password, fullNameError, usernameError, passwordError,
                   error, submitted>>

handleEmailChange(val) ==
    /\ mounted = "SignUpForm"
    /\ email' = val
    /\ emailError' = IF submitted THEN runEmailValidation(val) ELSE emailError
    /\ lastOp' = Event("handleEmailChange")
    /\ UNCHANGED <<mounted, navbarVars, loginVars, sessionVars, profilePic, fullName,
                   username, password, fullNameError, usernameError, passwordError,
                   error, submitted>>

\* handlePasswordChange with a fault: validates before the first submit too
handlePasswordChangeUngated(val) ==
    /\ mounted = "SignUpForm"
    /\ password' = val
    /\ passwordError' = runPasswordValidation(val)
    /\ lastOp' = Event("handlePasswordChange")
    /\ UNCHANGED <<mounted, navbarVars, loginVars, sessionVars, profilePic, fullName,
                   username, email, fullNameError, usernameError, emailError, error,
                   submitted>>

handlePasswordChange(val) ==
    /\ mounted = "SignUpForm"
    /\ password' = val
    /\ passwordError' = IF submitted THEN runPasswordValidation(val) ELSE passwordError
    /\ lastOp' = Event("handlePasswordChange")
    /\ UNCHANGED <<mounted, navbarVars, loginVars, sessionVars, profilePic, fullName,
                   username, email, fullNameError, usernameError, emailError, error,
                   submitted>>

EditFullName == \E val \in FullNameInputs \ {fullName} : handleFullNameChange(val)
EditUsername == \E val \in UsernameInputs \ {username} : handleUsernameChange(val)
EditEmail == \E val \in EmailInputs \ {email} : handleEmailChange(val)
EditPassword == \E val \in PasswordInputs \ {password} : handlePasswordChange(val)

----------------------------------------------------------------------------
(* LoginForm *)

LoginBody == [email |-> loginEmail, password |-> loginPassword]

\* isValid at line 57 of handleLogin
LoginIsValid(em, pw) == validateEmail(em) /\ pw # Empty

\* handleLogin with a fault: a submit while a request is pending is ignored
handleLoginWhenIdle ==
    /\ mounted = "LoginForm"
    /\ loginEmailError' = IF ~validateEmail(loginEmail)
                          THEN "Please enter a valid email address." ELSE ""
    /\ loginPasswordError' = IF loginPassword = Empty
                             THEN "Please enter a password." ELSE ""
    /\ IF ~LoginIsValid(loginEmail, loginPassword) \/ inFlight # << >>
       THEN UNCHANGED <<serverError, inFlight, calls>>
       ELSE /\ CountCalls(calls, "post") < MaxRequests
            /\ serverError' = ""
            /\ inFlight' = Append(inFlight, Request("AUTH.LOGIN", LoginBody))
            /\ calls' = Append(calls, "post")
    /\ lastOp' = Event("handleLogin")
    /\ UNCHANGED <<mounted, navbarVars, signUpVars, user, route, loginEmail,
                   loginPassword>>

\* handleLogin up to its await
handleLogin ==
    /\ mounted = "LoginForm"
    /\ loginEmailError' = IF ~validateEmail(loginEmail)
                          THEN "Please enter a valid email address." ELSE ""
    /\ loginPasswordError' = IF loginPassword = Empty
                             THEN "Please enter a password." ELSE ""
    /\ IF ~LoginIsValid(loginEmail, loginPassword)
       THEN UNCHANGED <<serverError, inFlight, calls>>
       ELSE /\ CountCalls(calls, "post") < MaxRequests
            /\ serverError' = ""
            /\ inFlight' = Append(inFlight, Request("AUTH.LOGIN", LoginBody))
            /\ calls' = Append(calls, "post")
    /\ lastOp' = Event("handleLogin")
    /\ UNCHANGED <<mounted, navbarVars, signUpVars, user, route, loginEmail,
                   loginPassword>>

\* LoginCatchMessage with a fault: the server's message is dropped
LoginCatchAlwaysFallback(resp) == FallbackMessage

\* error?.response?.data?.message || "Something went wrong. Please try again."
LoginCatchMessage(resp) ==
    IF resp.kind = "rejected" /\ Truthy(resp.message) THEN resp.message
    ELSE FallbackMessage

\* handleLogin from its await on: the request inFlight[i] settles with resp
handleLoginSettled(i, resp) ==
    /\ mounted = "LoginForm"
    /\ inFlight' = RemoveAt(inFlight, i)
    /\ IF resp.kind = "ok"
       THEN /\ user' = userWithId(resp.user)
            /\ route' = DashboardPath
            /\ calls' = calls \o <<"updateUser", "push">>
            /\ UNCHANGED serverError
       ELSE IF resp.kind = "okNoUser"
       THEN UNCHANGED <<user, route, calls, serverError>>
       ELSE \* a rejection, or the TypeError of reading .data / .user of undefined
            /\ serverError' = LoginCatchMessage(resp)
            /\ UNCHANGED <<user, route, calls>>
    /\ lastOp' = SettledEvent("handleLoginSettled", resp)
    /\ UNCHANGED <<mounted, navbarVars, signUpVars, loginEmail, loginPassword,
                   loginEmailError, loginPasswordError>>

LoginSettles ==
    \E i \in DOMAIN inFlight : \E resp \in Responses : handleLoginSettled(i, resp)

\* onChange={({ target }) => setEmail(target.value)}
loginSetEmail(val) ==
    /\ mounted = "LoginForm"
    /\ loginEmail' = val
    /\ lastOp' = Event("setEmail")
    /\ UNCHANGED <<mounted, navbarVars, signUpVars, sessionVars, loginPassword,
                   loginEmailError, loginPasswordError, serverError>>

\* onChange={({ target }) => setPassword(target.value)}
loginSetPassword(val) ==
    /\ mounted = "LoginForm"
    /\ loginPassword' = val
    /\ lastOp' = Event("setPassword")
    /\ UNCHANGED <<mounted, navbarVars, signUpVars, sessionVars, loginEmail,
                   loginEmailError, loginPasswordError, serverError>>

EditLoginEmail == \E val \in EmailInputs \ {loginEmail} : loginSetEmail(val)
EditLoginPassword == \E val \in PasswordInputs \ {loginPassword} : loginSetPassword(val)

----------------------------------------------------------------------------
(* Specification *)

Next ==
    \/ ToggleSideMenu
    \/ ChangeActiveMenu
    \/ handleSignUp
    \/ SignUpSettles
    \/ EditFullName
    \/ EditUsername
    \/ EditEmail
    \/ EditPassword
    \/ handleLogin
    \/ LoginSettles
    \/ EditLoginEmail
    \/ EditLoginPassword

Spec == Init /\ [][Next]_vars

----------------------------------------------------------------------------
(* Vocabulary of the properties *)

SignUpFieldNames == {"fullName", "username", "email", "password"}

RejectedKinds == {"rejected", "rejectedNoMessage"}

\* the four validator results for the current field values
SignUpValidation ==
    <<runFullNameValidation(fullName), runUsernameValidation(username),
      runEmailValidation(email), runPasswordValidation(password)>>

SignUpFieldErrors == <<fullNameError, usernameError, emailError, passwordError>>
SignUpFieldValues == <<fullName, username, email, password>>

SignUpFieldsValid == SignUpValidation = <<"", "", "", "">>

LoginFieldsValid == validateEmail(loginEmail) /\ Len(loginPassword) > 0

\* the values of the form fields and of the field errors, of both forms
FormValues == <<SignUpFieldValues, profilePic, loginEmail, loginPassword>>
FormFieldErrors == <<SignUpFieldErrors, loginEmailError, loginPasswordError>>

\* field k of the sign-up form is the one handler op edits
EditOps ==
    <<"handleFullNameChange", "handleUsernameChange", "handleEmailChange",
      "handlePasswordChange">>

----------------------------------------------------------------------------
(* C1 *)

\* C1: a sign-up submit with at least one invalid field stores the four
\* validator results as the field errors (all four non-empty when all four
\* fields are empty), leaves the session user and the route unchanged and issues
\* no request.
C1_InvalidSignUpIssuesNoRequest ==
    [][ (lastOp'.op = "handleSignUp" /\ ~SignUpFieldsValid) =>
          /\ SignUpFieldErrors' = SignUpValidation
          /\ (SignUpFieldValues = <<Empty, Empty, Empty, Empty>> =>
                \A k \in 1..4 : SignUpFieldErrors'[k] # "")
          /\ user' = user
          /\ route' = route
          /\ calls' = calls
          /\ inFlight' = inFlight ]_vars

C1_Witness ==
    /\ lastOp.op = "handleSignUp"
    /\ SignUpFieldValues = <<Empty, Empty, Empty, Empty>>
    /\ \A k \in 1..4 : SignUpFieldErrors[k] # ""
    /\ calls = << >>
    /\ user = NoUser

----------------------------------------------------------------------------
(* C2 *)

\* C2: a sign-up submit with four valid fields issues exactly one registration
\* request whose body is exactly {fullName, username, email, password} as they
\* are at submit time; a request in flight is not changed by later events; when
\* a request succeeds with a user object the session user becomes that user
\* with id = _id and the log gains exactly updateUser followed by push, the
\* route being /dashboard.
C2_ValidSignUpOneRequestThenUpdateAndNavigate ==
    [][ /\ (lastOp'.op = "handleSignUp" /\ SignUpFieldsValid) =>
              /\ calls' = Append(calls, "post")
              /\ inFlight' = Append(inFlight,
                     [endpoint |-> "AUTH.REGISTER",
                      body |-> [fullName |-> fullName, username |-> username,
                                email |-> email, password |-> password]])
              /\ DOMAIN inFlight'[Len(inFlight')].body = SignUpFieldNames
              /\ user' = user /\ route' = route
        /\ (mounted = "SignUpForm" /\ lastOp'.op # "handleSignUp") =>
              \A j \in DOMAIN inFlight' : \E i \in DOMAIN inFlight :
                  inFlight'[j] = inFlight[i]
        /\ (lastOp'.op = "handleSignUpSettled" /\ lastOp'.arg.kind = "ok") =>
              /\ calls' = calls \o <<"updateUser", "push">>
              /\ user'.id = lastOp'.arg.user._id
              /\ \A f \in DOMAIN lastOp'.arg.user : user'[f] = lastOp'.arg.user[f]
              /\ DOMAIN user' = DOMAIN lastOp'.arg.user \cup {"id"}
              /\ route' = "/dashboard" ]_vars

\* the request succeeded after the form was edited again: the body was the
\* submit-time one
C2_Witness ==
    /\ lastOp.op = "handleSignUpSettled"
    /\ lastOp.arg.kind = "ok"
    /\ calls = <<"post", "updateUser", "push">>
    /\ user # NoUser
    /\ route = "/dashboard"
    /\ fullName = Empty

----------------------------------------------------------------------------
(* C3 *)

\* C3: a login request rejected with a server-supplied message shows exactly
\* that message as the server error, one rejected without a message (or with
\* the empty message) shows the generic fallback; in both cases the session
\* user is not updated and nothing is navigated to.
C3_LoginRejectionShowsMessage ==
    [][ (lastOp'.op = "handleLoginSettled" /\ lastOp'.arg.kind \in RejectedKinds) =>
          /\ IF lastOp'.arg.kind = "rejected" /\ lastOp'.arg.message # ""
             THEN serverError' = lastOp'.arg.message
             ELSE serverError' = "Something went wrong. Please try again."
          /\ user' = user
          /\ route' = route
          /\ calls' = calls ]_vars

C3_Witness ==
    /\ lastOp.op = "handleLoginSettled"
    /\ lastOp.arg.kind = "rejected"
    /\ serverError = "Invalid credentials"
    /\ LoginFieldsValid
    /\ user = NoUser
    /\ route = "/login"
    /\ calls = <<"post">>

----------------------------------------------------------------------------
(* C4 *)

\* C4: once the sign-up form has been submitted, editing one field to a value
\* its validator accepts sets that field's error to empty and leaves the other
\* three field errors, the other three field values and the global error
\* unchanged; the edit issues no request.
C4_EditClearsOnlyOwnError ==
    [][ \A k \in 1..4 :
          (/\ submitted
           /\ lastOp'.op = EditOps[k]
           /\ SignUpValidation'[k] = "") =>
             /\ SignUpFieldErrors'[k] = ""
             /\ \A j \in (1..4) \ {k} :
                   /\ SignUpFieldErrors'[j] = SignUpFieldErrors[j]
                   /\ SignUpFieldValues'[j] = SignUpFieldValues[j]
             /\ error' = error
             /\ calls' = calls
             /\ inFlight' = inFlight ]_vars

\* every submission so far failed validation, the e-mail was then edited to a
\* valid one, the other three fields are still in error
C4_Witness ==
    /\ submitted
    /\ calls = << >>
    /\ lastOp.op = "handleEmailChange"
    /\ validateEmail(email)
    /\ emailError = ""
    /\ fullNameError # "" /\ usernameError # "" /\ passwordError # ""

----------------------------------------------------------------------------
(* C5 *)

\* C5: in every reachable state of the sign-up form, while submitted is false
\* every field error is empty; once submitted is true it never returns to
\* false; and while it is true each field error is its validator applied to
\* the field's current value.
C5_ErrorsHiddenThenLive ==
    /\ [](IF submitted
          THEN SignUpFieldErrors = SignUpValidation
          ELSE SignUpFieldErrors = <<"", "", "", "">>)
    /\ [][submitted => submitted']_vars

\* after a submit, edits and a settled request: errors of both kinds present
C5_Witness ==
    /\ submitted
    /\ lastOp.op = "handleSignUpSettled"
    /\ error # ""
    /\ passwordError # ""
    /\ fullNameError = ""
    /\ fullName # Empty

----------------------------------------------------------------------------
(* C6 *)

\* C6: a failed remote call (registration or login) sets the single
\* global/server error to a non-empty message and nothing else of the forms:
\* every field value and every field error is unchanged, the session user and
\* the route are unchanged, and it issues no request; a request is only ever
\* issued by a submit.
C6_FailureIsTerminal ==
    [][ /\ (/\ lastOp'.op \in {"handleSignUpSettled", "handleLoginSettled"}
            /\ lastOp'.arg.kind \in RejectedKinds) =>
              /\ FormValues' = FormValues
              /\ FormFieldErrors' = FormFieldErrors
              /\ submitted' = submitted
              /\ user' = user /\ route' = route
              /\ calls' = calls
              /\ Len(inFlight') = Len(inFlight) - 1
              /\ IF lastOp'.op = "handleSignUpSettled"
                 THEN error' # "" /\ serverError' = serverError
                 ELSE serverError' # "" /\ error' = error
        /\ (CountCalls(calls', "post") # CountCalls(calls, "post")) =>
              lastOp'.op \in {"handleSignUp", "handleLogin"} ]_vars

\* a registration was rejected without a message: fallback shown, the fields
\* as submitted, nothing in flight, one request issued in all
C6_Witness ==
    /\ lastOp.op = "handleSignUpSettled"
    /\ lastOp.arg.kind = "rejectedNoMessage"
    /\ error = FallbackMessage
    /\ SignUpFieldsValid
    /\ inFlight = << >>
    /\ calls = <<"post">>

----------------------------------------------------------------------------
(* C7 *)

\* C7: every login submit recomputes the displayed errors from that attempt:
\* after it the two field errors are those of its validation and no server
\* error of an earlier attempt is displayed.
C7_LoginSubmitLeavesNoStaleError ==
    [][ lastOp'.op = "handleLogin" =>
          /\ loginEmailError' # "" <=> ~validateEmail(loginEmail)
          /\ loginPasswordError' # "" <=> loginPassword = Empty
          /\ serverError' = "" ]_vars

----------------------------------------------------------------------------
(* C8 *)

\* C8: a submit of valid fields issues a request however many requests are in
\* flight, and every request that succeeds with a user object updates the
\* session context once and navigates once, whatever else is in flight.
C8_NoDuplicateSubmissionGuard ==
    [][ /\ (\/ lastOp'.op = "handleSignUp" /\ SignUpFieldsValid
            \/ lastOp'.op = "handleLogin" /\ LoginFieldsValid) =>
              /\ Len(inFlight') = Len(inFlight) + 1
              /\ calls' = Append(calls, "post")
        /\ (/\ lastOp'.op \in {"handleSignUpSettled", "handleLoginSettled"}
            /\ lastOp'.arg.kind = "ok") =>
              /\ calls' = calls \o <<"updateUser", "push">>
              /\ Len(inFlight') = Len(inFlight) - 1 ]_vars

\* two requests were in flight together and both succeeded
C8_Witness ==
    /\ calls = <<"post", "post", "updateUser", "push", "updateUser", "push">>
    /\ inFlight = << >>
    /\ user # NoUser

----------------------------------------------------------------------------
(* C9 *)

\* C9: every request that completes ends either with the session user stored
\* and the dashboard navigated to, or with a non-empty global/server error
\* displayed.
C9_NoSilentCompletion ==
    [][ lastOp'.op \in {"handleSignUpSettled", "handleLoginSettled"} =>
          \/ /\ calls' = calls \o <<"updateUser", "push">>
             /\ user' # NoUser
             /\ route' = "/dashboard"
          \/ /\ calls' = calls
             /\ IF lastOp'.op = "handleSignUpSettled"
                THEN error' # "" ELSE serverError' # "" ]_vars

----------------------------------------------------------------------------
(* C10 *)

\* C10: the side panel is rendered exactly when openSideMenu is true; it is
\* closed at the start, open after an odd number of toggle clicks and closed
\* after an even number; only a toggle click changes it, and each one flips it.
C10_SideMenuFollowsClicks ==
    /\ [](/\ SideMenuRendered <=> openSideMenu
          /\ openSideMenu <=> (clicks % 2 = 1))
    /\ [][ /\ lastOp'.op = "toggleSideMenu" => openSideMenu' = ~openSideMenu
           /\ openSideMenu' # openSideMenu => lastOp'.op = "toggleSideMenu" ]_vars

\* open after three clicks, the activeMenu prop having changed since
C10_Witness ==
    /\ openSideMenu
    /\ SideMenuRendered
    /\ clicks = 3
    /\ lastOp.op = "changeActiveMenu"

====
